---- MODULE Spec2Model ----
(***************************************************************************)
(* Model of lightautoml/automl/presets/tabular_presets.py:                 *)
(* TabularAutoML (parameter inference, time scores, selector / level       *)
(* pipeline builders, create_automl, batched predict) and                  *)
(* TabularUtilizedAutoML.__init__.                                         *)
(*                                                                         *)
(* Encodings.                                                              *)
(*  - An algorithm key is the tuple of its '_'-separated tokens:           *)
(*    'lgb_tuned' is <<"lgb", "tuned">>, so key.split('_')[0] is Head(key).*)
(*  - Python None is the empty tuple <<>>, a present value x is <<x>>.     *)
(*  - An option that may hold the sentinel 'auto' is [auto |-> TRUE] or    *)
(*    [auto |-> FALSE, val |-> v].                                         *)
(*  - Time scores are counted in thousandths (the table holds 0.7 and the  *)
(*    multipliers 0.8, 0.1 and 0.5 are tenths).                            *)
(*  - Every object the builders create (task timer, model) gets the next   *)
(*    id of the counter heap, so that two objects are the same object      *)
(*    exactly when their ids are equal.                                    *)
(***************************************************************************)
EXTENDS Integers, Sequences, FiniteSets, TLC

VARIABLES
    task,              \* self.task: [name, losses]
    gpu_ids,           \* self.gpu_ids: [all, ids]
    cpu_limit,         \* self.cpu_limit
    tuning_params,     \* self.tuning_params: [max_tuning_iter]
    general_params,    \* self.general_params: [use_algos, nested_cv, skip_conn]
    nested_cv_params,  \* self.nested_cv_params: [cv, n_folds]
    selection_params,  \* self.selection_params
    cb_params,         \* self.cb_params['default_params']: [task_type, devices, thread_count]
    lgb_params,        \* self.lgb_params['default_params']: [num_threads]
    reader_params,     \* self.reader_params: [n_jobs]
    heap,              \* number of objects (timers, models) created so far
    automl,            \* what _initialize received: [initialized, levels, skip_conn, blender]
    ret,               \* the last call of a TabularAutoML method: [op, args, err, val]
    pjob,              \* a predict call: [pc, model, data, n_jobs, batches, next, running, pred]
    pres,              \* predict: the result of each batch, None until its worker is done
    porder,            \* predict: the batch indices in the order the workers finished
    util               \* TabularUtilizedAutoML: [constructed, args, runner]

cfgvars == <<task, gpu_ids, cpu_limit, tuning_params, general_params, nested_cv_params,
             selection_params, cb_params, lgb_params, reader_params>>
amlvars == <<cfgvars, heap, automl, ret>>
predvars == <<pjob, pres, porder>>
vars == <<amlvars, predvars, util>>

-----------------------------------------------------------------------------
(* Values *)

None == <<>>
Some(x) == <<x>>
AutoVal == [auto |-> TRUE]
Fixed(v) == [auto |-> FALSE, val |-> v]

Min(a, b) == IF a < b THEN a ELSE b

LGB == <<"lgb">>
LGB_TUNED == <<"lgb", "tuned">>
LINEAR_L2 == <<"linear", "l2">>
CB == <<"cb">>
CB_TUNED == <<"cb", "tuned">>

\* _time_scores, in tenths
time_scores ==
    (LGB :> 10) @@ (LGB_TUNED :> 30) @@ (LINEAR_L2 :> 7) @@ (CB :> 20) @@ (CB_TUNED :> 60)

-----------------------------------------------------------------------------
(* infer_auto_params *)

\* the step function with the thresholds taken into the lower bracket
InferTuningIterInclusive(length) ==
    IF length <= 10000 THEN 100
    ELSE IF length <= 30000 THEN 50
    ELSE IF length <= 100000 THEN 10
    ELSE 5

\* the step function of the row count
InferTuningIter(length) ==
    IF length < 10000 THEN 100
    ELSE IF length < 30000 THEN 50
    ELSE IF length < 100000 THEN 10
    ELSE 5

\* the levels 'auto' resolves to
InferUseAlgos(task_name, multilevel_avail) ==
    LET first == << <<LGB, LGB_TUNED, LINEAR_L2, CB, CB_TUNED>> >>
    IN  IF task_name = "multiclass" /\ multilevel_avail
        THEN Append(first, <<LINEAR_L2, LGB>>)
        ELSE first

\* ','.join(map(str, range(gpu_cnt))), as the sequence of device indices
AllDevices(gpu_cnt) == [i \in 1..gpu_cnt |-> i - 1]

GpuIdsSet(g) == g.all \/ g.ids # <<>>

\* the configuration after infer_auto_params(train_data, multilevel_avail), where
\* length = train_data.shape[0], gpu_cnt = torch.cuda.device_count() and
\* os_cpu = os.cpu_count()
InferAutoParams(length, multilevel_avail, gpu_cnt, os_cpu) ==
    LET cpu_cnt == Min(os_cpu, cpu_limit)
        use_gpu == gpu_cnt > 0 /\ GpuIdsSet(gpu_ids)
    IN  /\ tuning_params' =
              IF tuning_params.max_tuning_iter.auto
              THEN [tuning_params EXCEPT !.max_tuning_iter = Fixed(InferTuningIter(length))]
              ELSE tuning_params
        /\ general_params' =
              IF general_params.use_algos.auto
              THEN [general_params EXCEPT
                      !.use_algos = Fixed(InferUseAlgos(task.name, multilevel_avail))]
              ELSE general_params
        /\ nested_cv_params' =
              IF ~general_params.nested_cv
              THEN [nested_cv_params EXCEPT !.cv = 1]
              ELSE nested_cv_params
        /\ cb_params' =
              [cb_params EXCEPT
                 !.task_type = IF use_gpu THEN "GPU" ELSE @,
                 !.devices = IF use_gpu
                             THEN (IF gpu_ids.all THEN AllDevices(gpu_cnt) ELSE gpu_ids.ids)
                             ELSE @,
                 !.thread_count = Min(@, cpu_cnt)]
        /\ lgb_params' = [lgb_params EXCEPT !.num_threads = Min(@, cpu_cnt)]
        /\ reader_params' = [reader_params EXCEPT !.n_jobs = Min(@, cpu_cnt)]
        /\ UNCHANGED <<task, gpu_ids, cpu_limit, selection_params>>

-----------------------------------------------------------------------------------------------------------------------------------------------------
(* The object the methods read: self *)

MkSelf(t, tp, gp, ncp, sp, cbp, lgbp) ==
    [task |-> t, tuning_params |-> tp, general_params |-> gp, nested_cv_params |-> ncp,
     selection_params |-> sp, cb_params |-> cbp, lgb_params |-> lgbp]

Self == MkSelf(task, tuning_params, general_params, nested_cv_params,
               selection_params, cb_params, lgb_params)

\* self once the infer_auto_params step of the running call has assigned it
SelfNext == MkSelf(task', tuning_params', general_params', nested_cv_params',
                   selection_params', cb_params', lgb_params')

-----------------------------------------------------------------------------
(* get_time_score *)

\* nested defaults to general_params['nested_cv'] when it is None
ResolveNested(self, nested) ==
    IF nested = None THEN self.general_params.nested_cv ELSE nested[1]

\* the fold multiplier of a nested run: n_folds when it is set, else cv
NestedMult(ncp) == IF ncp.n_folds # None THEN ncp.n_folds[1] ELSE ncp.cv

\* the level multiplier with the two factors exchanged
LevelMultSwapped(self, n_level) ==
    IF n_level > 1 THEN (IF self.general_params.skip_conn THEN 1 ELSE 8) ELSE 10

\* the level multiplier, in tenths: 0.8 or 0.1 above the first level
LevelMult(self, n_level) ==
    IF n_level > 1 THEN (IF self.general_params.skip_conn THEN 8 ELSE 1) ELSE 10

\* the catboost-on-gpu multiplier, in tenths
GpuMult(self, model_type) ==
    IF model_type \in {CB, CB_TUNED} /\ self.cb_params.task_type = "GPU" THEN 5 ELSE 10

\* self._time_scores[model_type] raises KeyError for a model_type outside the table
HasTimeScore(model_type) == model_type \in DOMAIN time_scores

\* get_time_score(n_level, model_type, nested) in thousandths, for a model_type of
\* the table
GetTimeScore(self, n_level, model_type, nested) ==
    LET score == time_scores[model_type]
        mult == IF ResolveNested(self, nested) THEN NestedMult(self.nested_cv_params) ELSE 1
    IN  score * mult * LevelMult(self, n_level) * GpuMult(self, model_type)

-----------------------------------------------------------------------------
(* Objects the builders create *)

\* self.timer.get_task_timer(key, score): a new task timer
TaskTimer(id, key, score) == [id |-> id, key |-> key, score |-> score]

\* BoostLGBM / BoostCB / LinearLBFGS(timer=..., **params): a new model
Model(id, algo, timer, params) == [id |-> id, algo |-> algo, timer |-> timer, params |-> params]

-----------------------------------------------------------------------------
(* get_selector *)

\* the importance-cutoff stage built for mode > 0; it takes the ids h and h + 1
CutoffStage(self, n_level, h) ==
    LET sp == self.selection_params
        sel_timer_0 == TaskTimer(h, "lgb", GetTimeScore(self, n_level, LGB, Some(FALSE)))
        lgbp == [num_threads |-> self.lgb_params.num_threads, feature_fraction |-> 1]
    IN  [kind |-> "ImportanceCutoffSelector",
         model |-> Model(h + 1, "lgb", sel_timer_0, lgbp),
         importance |-> IF sp.importance_type = "permutation"
                        THEN "permutation" ELSE "model_based",
         cutoff |-> sp.cutoff,
         fit_on_holdout |-> sp.fit_on_holdout]

\* the iterative stage added for mode = 2; it takes the ids h and h + 1
IterativeStage(self, n_level, h) ==
    LET sp == self.selection_params
        sel_timer_1 == TaskTimer(h, "lgb", GetTimeScore(self, n_level, LGB, Some(FALSE)))
        lgbp == [num_threads |-> self.lgb_params.num_threads, feature_fraction |-> 1]
    IN  [kind |-> "NpIterativeFeatureSelector",
         model |-> Model(h + 1, "lgb", sel_timer_1, lgbp),
         importance |-> "permutation",
         feature_group_size |-> sp.feature_group_size,
         max_features_cnt_in_result |-> sp.max_features_cnt_in_result]

\* the stages with the iterative stage given the timer and model of the cutoff stage
SelectorStagesSharedModel(self, n_level, h) ==
    LET mode == self.selection_params.mode
    IN  IF mode > 0
        THEN IF mode = 2
             THEN <<CutoffStage(self, n_level, h), IterativeStage(self, n_level, h)>>
             ELSE <<CutoffStage(self, n_level, h)>>
        ELSE <<>>

\* the stages of the selector get_selector(n_level) returns, built from heap id h on:
\* <<>> is None, one stage is the cutoff selector, two are the ComposedSelector
SelectorStages(self, n_level, h) ==
    LET mode == self.selection_params.mode
    IN  IF mode > 0
        THEN IF mode = 2
             THEN <<CutoffStage(self, n_level, h), IterativeStage(self, n_level, h + 2)>>
             ELSE <<CutoffStage(self, n_level, h)>>
        ELSE <<>>

\* get_selector(n_level): [val |-> None or Some(selector), heap |-> the counter after]
GetSelector(self, n_level, h) ==
    LET stages == SelectorStages(self, n_level, h)
    IN  [val |-> IF stages = <<>> THEN None ELSE Some([stages |-> stages]),
         heap |-> h + 2 * Len(stages)]

-----------------------------------------------------------------------------
(* get_linear *)

\* get_linear(n_level, pre_selector): [val |-> the pipeline, heap |-> the counter after]
GetLinear(self, n_level, pre_selector, h) ==
    LET time_score == GetTimeScore(self, n_level, LINEAR_L2, None)
        linear_l2_timer == TaskTimer(h, "reg_l2", time_score)
        linear_l2_model == Model(h + 1, "linear_l2", linear_l2_timer, "linear_l2_params")
    IN  [val |-> [kind |-> "linear",
                  ml_algos |-> << [model |-> linear_l2_model, tuner |-> None] >>,
                  force_calc |-> <<TRUE>>,
                  pre_selection |-> pre_selector,
                  features_pipeline |-> "LinearFeatures",
                  nested_cv_params |-> self.nested_cv_params],
         heap |-> h + 2]

-----------------------------------------------------------------------------
(* get_gbms *)

\* '_tuned' in key
IsTuned(key) == \E i \in 2..Len(key) : key[i] = "tuned"

\* key.split('_')[0]
AlgoKey(key) == Head(key)

\* the force flags one short of the four boosting keys
ForceFlagsShort == <<TRUE, FALSE, FALSE>>

\* the force flags zip pairs the keys with
ForceFlags == <<TRUE, FALSE, FALSE, FALSE>>

\* what the loop body raises for key: KeyError at the time-score lookup, ValueError
\* at the dispatch on the base algorithm, "" when it builds a unit
PassError(key) ==
    IF ~HasTimeScore(key) THEN "KeyError"
    ELSE IF AlgoKey(key) \notin {"lgb", "cb"} THEN "ValueError"
    ELSE ""

\* the unit one pass of the loop body builds for a key it accepts; it takes the ids
\* h (timer) and h + 1 (model)
GbmUnit(self, key, n_level, h) ==
    LET algo_key == AlgoKey(key)
        gbm_timer == TaskTimer(h, algo_key, GetTimeScore(self, n_level, key, None))
        params == IF algo_key = "lgb" THEN self.lgb_params ELSE self.cb_params
        gbm_model == Model(h + 1, algo_key, gbm_timer, params)
        gbm_tuner == [n_trials |-> self.tuning_params.max_tuning_iter]
    IN  [model |-> gbm_model, tuner |-> IF IsTuned(key) THEN Some(gbm_tuner) ELSE None]

\* the number of passes of the loop over zip(keys, ForceFlags)
ZipLen(keys) == Min(Len(keys), Len(ForceFlags))

\* the first pass that raises, 0 when none does
FirstBad(keys) ==
    LET bad == {i \in 1..ZipLen(keys) : PassError(keys[i]) # ""}
    IN  IF bad = {} THEN 0 ELSE CHOOSE i \in bad : \A j \in bad : i <= j

\* get_gbms(keys, n_level, pre_selector): [err, val |-> the pipeline, heap]. Pass i
\* creates its timer and model as objects h + 2(i-1) and h + 2(i-1) + 1; a pass that
\* raises ValueError has created its timer, one that raises KeyError nothing
GetGbms(self, keys, n_level, pre_selector, h) ==
    LET j == FirstBad(keys)
    IN  IF j # 0
        THEN [err |-> PassError(keys[j]), val |-> None,
              heap |-> h + 2 * (j - 1) + (IF PassError(keys[j]) = "ValueError" THEN 1 ELSE 0)]
        ELSE [err |-> "",
              val |-> Some([kind |-> "gbm",
                            ml_algos |-> [i \in 1..ZipLen(keys) |->
                                            GbmUnit(self, keys[i], n_level, h + 2 * (i - 1))],
                            force_calc |-> SubSeq(ForceFlags, 1, ZipLen(keys)),
                            pre_selection |-> pre_selector,
                            features_pipeline |-> "LGBAdvancedPipeline",
                            nested_cv_params |-> self.nested_cv_params]),
              heap |-> h + 2 * ZipLen(keys)]

-----------------------------------------------------------------------------
(* create_automl *)

InSeq(x, s) == \E i \in 1..Len(s) : s[i] = x

\* the boosting keys in their fixed order
GbmOrder == <<LGB, LGB_TUNED, CB, CB_TUNED>>

\* the boosting keys of names, whatever the task admits
GbmModelsUnfiltered(self, names) ==
    SelectSeq(GbmOrder, LAMBDA x : InSeq(x, names))

\* [x for x in GbmOrder if x in names and x.split('_')[0] in self.task.losses]
GbmModels(self, names) ==
    SelectSeq(GbmOrder, LAMBDA x : InSeq(x, names) /\ AlgoKey(x) \in self.task.losses)

\* the selector handed to a selected family on every level, skip connections or not
LevelSelectorAnyLevel(self, family, n, pre_selector) ==
    IF family \in self.selection_params.select_algos
    THEN pre_selector
    ELSE None

\* the selector a family's pipeline of level n (0-based) gets
LevelSelector(self, family, n, pre_selector) ==
    IF family \in self.selection_params.select_algos
       /\ (self.general_params.skip_conn \/ n = 0)
    THEN pre_selector
    ELSE None

\* one pass of the loop over the levels, creating objects from h on: [err, lvl, heap]
BuildLevel(self, names, n, pre_selector, h) ==
    LET has_linear == InSeq(LINEAR_L2, names)
        gbm_models == GbmModels(self, names)
        h_gbm == IF has_linear THEN h + 2 ELSE h
        lin == IF has_linear
               THEN <<GetLinear(self, n + 1,
                                LevelSelector(self, "linear_l2", n, pre_selector), h).val>>
               ELSE <<>>
        g == GetGbms(self, gbm_models, n + 1, LevelSelector(self, "gbm", n, pre_selector),
                     h_gbm)
    IN  IF Len(gbm_models) > 0
        THEN IF g.err # ""
             THEN [err |-> g.err, lvl |-> lin, heap |-> g.heap]
             ELSE [err |-> "", lvl |-> Append(lin, g.val[1]), heap |-> g.heap]
        ELSE [err |-> "", lvl |-> lin, heap |-> h_gbm]

\* the objects the first n passes of the loop over the levels create
RECURSIVE LevelsAlloc(_, _, _)
LevelsAlloc(self, use_algos, n) ==
    IF n = 0 THEN 0
    ELSE LevelsAlloc(self, use_algos, n - 1)
         + (IF InSeq(LINEAR_L2, use_algos[n]) THEN 2 ELSE 0)
         + 2 * Len(GbmModels(self, use_algos[n]))

\* the loop over enumerate(use_algos), creating objects from h on: [err, levels, heap]
BuildLevels(self, use_algos, pre_selector, h) ==
    LET pass(n) == BuildLevel(self, use_algos[n + 1], n, pre_selector,
                              h + LevelsAlloc(self, use_algos, n))
        failed == {n \in 0..(Len(use_algos) - 1) : pass(n).err # ""}
    IN  IF failed = {}
        THEN [err |-> "",
              levels |-> [i \in 1..Len(use_algos) |-> pass(i - 1).lvl],
              heap |-> h + LevelsAlloc(self, use_algos, Len(use_algos))]
        ELSE LET f == CHOOSE n \in failed : \A m \in failed : n <= m
             IN  [err |-> pass(f).err,
                  levels |-> [i \in 1..f |-> pass(i - 1).lvl],
                  heap |-> pass(f).heap]

\* multilevel availability granted when either argument is missing
MultilevelAvailEither(valid_data, cv_iter) == valid_data = None \/ cv_iter = None

\* fit_args['valid_data'] is None and fit_args['cv_iter'] is None
MultilevelAvail(valid_data, cv_iter) == valid_data = None /\ cv_iter = None

\* everything create_automl builds after infer_auto_params: [err, levels, heap]
Assemble(self, h) ==
    LET s == GetSelector(self, 1, h)
    IN  BuildLevels(self, self.general_params.use_algos.val, s.val, s.heap)

-----------------------------------------------------------------------------
(* Bounds of the model *)

\* row counts are tried this close around each threshold of the step function
MaxDelta == 1
\* levels a call is made for: 1..MaxLevel
MaxLevel == 3
\* configured cv and n_folds: 1..MaxFolds
MaxFolds == 3
\* a further building call starts only while at most MaxHeap objects exist
MaxHeap == 4
\* torch.cuda.device_count() is 0..MaxGpu
MaxGpu == 1

Lengths ==
    {0, 5000, 20000, 80000, 500000}
    \cup {b + d : b \in {10000, 30000, 100000}, d \in (0 - MaxDelta)..MaxDelta}

Levels == 1..MaxLevel

\* a key outside the cost table, and a misspelt boosting key
XGB == <<"xgb">>
LGBM == <<"lgbm">>

\* os.cpu_count() of the machine
CpuCounts == {2, 8}

Range(s) == {s[i] : i \in 1..Len(s)}

\* the values an argument that is None or an object can take
Optional(x) == {None, Some(x)}

\* s with x put in at position i
InsertAt(s, i, x) ==
    [j \in 1..(Len(s) + 1) |-> IF j < i THEN s[j] ELSE IF j = i THEN x ELSE s[j - 1]]

\* the sub-lists of s, in the order of s
SubLists(s) == {SelectSeq(s, LAMBDA k : k \in S) : S \in SUBSET Range(s)}

\* at most MaxLevelKeys keys are requested in one level of a configured use_algos
MaxLevelKeys == 2

-----------------------------------------------------------------------------
(* State after construction *)

NoCall == [op |-> "none", args |-> <<>>, err |-> "", val |-> None]
NoAutoml == [initialized |-> FALSE, levels |-> <<>>, skip_conn |-> FALSE, blender |-> ""]

AllLosses == {"lgb", "cb", "sklearn", "torch"}

DefaultSelection ==
    [mode |-> 1, select_algos |-> {"linear_l2", "gbm"}, importance_type |-> "gain",
     cutoff |-> 0, fit_on_holdout |-> TRUE, feature_group_size |-> 1,
     max_features_cnt_in_result |-> None]

\* a data set holds at most MaxRows rows
MaxRows == 3
\* n_jobs is 1..MaxJobs
MaxJobs == 2
\* a configs_list holds at most MaxConfigs files, max_runs_per_config is 1..MaxRuns
MaxConfigs == 2
MaxRuns == 4

\* the values a row can hold
RowVals == {1, 2}

\* no predict call yet, on an automl whose fitted model maps a row to prediction m[row]
IdlePredictWith(m) ==
    /\ pjob = [pc |-> "idle", model |-> m, data |-> <<>>, n_jobs |-> 1, batches |-> <<>>,
               next |-> 1, running |-> {}, pred |-> None]
    /\ pres = <<>>
    /\ porder = <<>>

IdlePredict == IdlePredictWith([x \in RowVals |-> 0])

IdleUtil == util = [constructed |-> FALSE, args |-> None, runner |-> None]

\* TabularAutoML.__init__: the configuration file merged with the caller's params
InitAutoML(Tasks, GpuIds, Tunings, UseAlgos, NestedCv, SkipConn, Cvs, NFolds, Selections) ==
    /\ task \in Tasks
    /\ gpu_ids \in GpuIds
    /\ cpu_limit = 4
    /\ tuning_params \in [max_tuning_iter : Tunings]
    /\ general_params \in [use_algos : UseAlgos, nested_cv : NestedCv, skip_conn : SkipConn]
    /\ nested_cv_params \in [cv : Cvs, n_folds : NFolds]
    /\ selection_params \in Selections
    /\ cb_params = [task_type |-> "CPU", devices |-> <<>>, thread_count |-> 4]
    /\ lgb_params = [num_threads |-> 4]
    /\ reader_params = [n_jobs |-> 1]
    /\ heap = 0
    /\ automl = NoAutoml
    /\ ret = NoCall

-----------------------------------------------------------------------------
(* Calls of the TabularAutoML methods *)

Call(op, args, err, val) == [op |-> op, args |-> args, err |-> err, val |-> val]

InferCall(length, multilevel_avail, gpu_cnt, os_cpu) ==
    /\ InferAutoParams(length, multilevel_avail, gpu_cnt, os_cpu)
    /\ ret' = Call("infer_auto_params",
                   [length |-> length, multilevel_avail |-> multilevel_avail], "", None)
    /\ UNCHANGED <<heap, automl, predvars, util>>

TimeScoreCall(n_level, model_type, nested) ==
    /\ ret' = Call("get_time_score",
                   [n_level |-> n_level, model_type |-> model_type, nested |-> nested],
                   IF HasTimeScore(model_type) THEN "" ELSE "KeyError",
                   IF HasTimeScore(model_type)
                   THEN Some(GetTimeScore(Self, n_level, model_type, nested))
                   ELSE None)
    /\ UNCHANGED <<cfgvars, heap, automl, predvars, util>>

SelectorCall(n_level) ==
    /\ heap <= MaxHeap
    /\ LET r == GetSelector(Self, n_level, heap)
       IN  /\ ret' = Call("get_selector", [n_level |-> n_level], "", r.val)
           /\ heap' = r.heap
    /\ UNCHANGED <<cfgvars, automl, predvars, util>>

\* the selector a caller can pass on: none, or the one get_selector just returned
KnownSelectors == {None} \cup (IF ret.op = "get_selector" THEN {ret.val} ELSE {})

LinearCall(n_level, pre_selector) ==
    /\ heap <= MaxHeap
    /\ LET r == GetLinear(Self, n_level, pre_selector, heap)
       IN  /\ ret' = Call("get_linear",
                          [n_level |-> n_level, pre_selector |-> pre_selector], "", Some(r.val))
           /\ heap' = r.heap
    /\ UNCHANGED <<cfgvars, automl, predvars, util>>

GbmsCall(keys, n_level, pre_selector) ==
    /\ heap <= MaxHeap
    /\ LET r == GetGbms(Self, keys, n_level, pre_selector, heap)
       IN  /\ ret' = Call("get_gbms",
                          [keys |-> keys, n_level |-> n_level, pre_selector |-> pre_selector],
                          r.err, r.val)
           /\ heap' = r.heap
    /\ UNCHANGED <<cfgvars, automl, predvars, util>>

\* create_automl(train_data=..., valid_data=..., cv_iter=...): infer_auto_params, the
\* reader, get_selector, the levels, the blender and _initialize; an exception leaves
\* the pipeline uninitialised
CreateAutomlCall(length, valid_data, cv_iter, gpu_cnt, os_cpu) ==
    /\ heap <= MaxHeap
    /\ InferAutoParams(length, MultilevelAvail(valid_data, cv_iter), gpu_cnt, os_cpu)
    /\ LET r == Assemble(SelfNext, heap)
       IN  /\ heap' = r.heap
           /\ ret' = Call("create_automl",
                          [length |-> length, valid_data |-> valid_data, cv_iter |-> cv_iter],
                          r.err, None)
           /\ automl' = IF r.err = ""
                        THEN [initialized |-> TRUE, levels |-> r.levels,
                              skip_conn |-> general_params'.skip_conn,
                              blender |-> "WeightedBlender"]
                        ELSE automl
    /\ UNCHANGED <<predvars, util>>

-----------------------------------------------------------------------------
(* Specification Spec: parameter inference, alone and inside create_automl *)

BinaryTask == [name |-> "binary", losses |-> AllLosses]
MulticlassTask == [name |-> "multiclass", losses |-> AllLosses]
AllGpus == [all |-> TRUE, ids |-> <<>>]
NoGpus == [all |-> FALSE, ids |-> <<>>]

Init ==
    /\ InitAutoML({BinaryTask, MulticlassTask}, {AllGpus},
                  {AutoVal, Fixed(7)},
                  {AutoVal, Fixed(<< <<LINEAR_L2, CB>> >>)},
                  {FALSE}, {FALSE}, {MaxFolds}, {None},
                  {DefaultSelection})
    /\ IdlePredict
    /\ IdleUtil

Next ==
    \/ \E length \in Lengths, m \in BOOLEAN : InferCall(length, m, 0, 8)
    \/ \E length \in Lengths, v \in Optional("valid_data"), c \in Optional("cv_iter") :
          CreateAutomlCall(length, v, c, 0, 8)

Spec == Init /\ [][Next]_vars

-----------------------------------------------------------------------------
(* Specification SpecScore: time scores and nested cross-validation *)

TwoLevels == << <<LINEAR_L2, LGB, CB_TUNED>>, <<LINEAR_L2, CB>> >>

InitScore ==
    /\ InitAutoML({BinaryTask}, {AllGpus},
                  {Fixed(7)},
                  {Fixed(TwoLevels)},
                  BOOLEAN, BOOLEAN, 1..MaxFolds, {None} \cup {Some(k) : k \in 1..MaxFolds},
                  {DefaultSelection})
    /\ IdlePredict
    /\ IdleUtil

NextScore ==
    \/ \E g \in 0..MaxGpu : InferCall(0, FALSE, g, 8)
    \/ \E n \in Levels, k \in DOMAIN time_scores \cup {XGB},
          nested \in {None, Some(TRUE), Some(FALSE)} :
          TimeScoreCall(n, k, nested)

SpecScore == InitScore /\ [][NextScore]_vars

-----------------------------------------------------------------------------
(* Specification SpecNested: the nested-cv parameters the level pipelines get *)

InitNested ==
    /\ InitAutoML({BinaryTask}, {AllGpus},
                  {Fixed(7)},
                  {Fixed(TwoLevels)},
                  BOOLEAN, {FALSE}, 1..MaxFolds, {None} \cup {Some(k) : k \in 1..MaxFolds},
                  {DefaultSelection})
    /\ IdlePredict
    /\ IdleUtil

NextNested ==
    \/ InferCall(0, FALSE, 0, 8)
    \/ \E n \in Levels : LinearCall(n, None)
    \/ \E n \in Levels : GbmsCall(<<LGB, CB_TUNED>>, n, None)
    \/ CreateAutomlCall(0, None, None, 0, 8)

SpecNested == InitNested /\ [][NextNested]_vars

-----------------------------------------------------------------------------
(* Specification SpecGbms: get_gbms on every list of keys *)

\* the boosting keys in their order, any of them left out, and at most one other key
\* put in anywhere
KeyLists ==
    SubLists(GbmOrder)
    \cup UNION {{InsertAt(s, i, x) : i \in 1..(Len(s) + 1), x \in {LINEAR_L2, XGB}} :
                    s \in SubLists(GbmOrder)}

InitGbms ==
    /\ InitAutoML({BinaryTask}, {AllGpus},
                  {AutoVal},
                  {AutoVal},
                  {TRUE}, {TRUE}, {MaxFolds}, {None},
                  {DefaultSelection})
    /\ IdlePredict
    /\ IdleUtil

NextGbms ==
    \/ \E length \in {5000, 500000} : InferCall(length, FALSE, 0, 8)
    \/ \E keys \in KeyLists, n \in Levels : GbmsCall(keys, n, None)

SpecGbms == InitGbms /\ [][NextGbms]_vars

-----------------------------------------------------------------------------
(* Specification SpecCreate: create_automl on every configured use_algos *)

KeyUniverse == <<LGB, LGB_TUNED, LINEAR_L2, CB_TUNED, LGBM>>

\* the names of one level
LevelNames == {s \in SubLists(KeyUniverse) : Len(s) <= MaxLevelKeys}

\* no level, one level, two levels
UseAlgosChoices ==
    {<<>>} \cup {<<a>> : a \in LevelNames} \cup {<<a, b>> : a \in LevelNames, b \in LevelNames}

InitCreate ==
    /\ InitAutoML({[name |-> "binary", losses |-> l] :
                      l \in {AllLosses, AllLosses \ {"cb"}, {"sklearn", "torch"}}},
                  {AllGpus},
                  {Fixed(7)},
                  {AutoVal} \cup {Fixed(u) : u \in UseAlgosChoices},
                  {FALSE}, BOOLEAN, {1}, {None},
                  {[DefaultSelection EXCEPT !.mode = m, !.select_algos = a] :
                      m \in {0, 2}, a \in SUBSET {"linear_l2", "gbm"}})
    /\ IdlePredict
    /\ IdleUtil

NextCreate ==
    \/ \E v \in Optional("valid_data") : CreateAutomlCall(5000, v, None, 0, 8)

SpecCreate == InitCreate /\ [][NextCreate]_vars

-----------------------------------------------------------------------------
(* Specification SpecSelector: get_selector in every selection mode *)

Selections ==
    [mode : 0..3, select_algos : {{"gbm"}}, importance_type : {"gain", "permutation"},
     cutoff : {0, 1}, fit_on_holdout : {TRUE}, feature_group_size : {1, 2},
     max_features_cnt_in_result : {None, Some(5)}]

InitSelector ==
    /\ InitAutoML({BinaryTask}, {AllGpus},
                  {Fixed(7)},
                  {AutoVal},
                  {FALSE}, BOOLEAN, {1}, {None},
                  Selections)
    /\ IdlePredict
    /\ IdleUtil

NextSelector ==
    \/ \E n \in Levels : SelectorCall(n)
    \/ \E g \in 0..MaxGpu, c \in CpuCounts : InferCall(5000, FALSE, g, c)

SpecSelector == InitSelector /\ [][NextSelector]_vars

-----------------------------------------------------------------------------
(* predict *)

\* super().predict(data, features_names) of the fitted automl: one prediction per row
SuperPredict(model, rows) == [i \in 1..Len(rows) |-> model[rows[i]]]

\* read_batch(data, ..., batch_size=bs): the rows in consecutive batches of bs rows
ReadBatch(rows, bs) ==
    [b \in 1..((Len(rows) + bs - 1) \div bs) |->
        SubSeq(rows, (b - 1) * bs + 1, Min(b * bs, Len(rows)))]

\* np.concatenate([x.data for x in res], axis=0)
RECURSIVE Concatenate(_)
Concatenate(res) == IF res = <<>> THEN <<>> ELSE Head(res) \o Concatenate(Tail(res))

\* the results handed back in the order the workers finished
ParallelResultsAsCompleted == [i \in 1..Len(porder) |-> pres[porder[i]][1]]

\* res = p(delayed(self.predict)(df, features_names) for df in data_generator): the
\* list of the results in the order of the batches
ParallelResults == [i \in 1..Len(pres) |-> pres[i][1]]

\* the end of predict: the concatenation; np.concatenate raises on an empty list
Finish(job, res) ==
    IF res = <<>>
    THEN [job EXCEPT !.pc = "error"]
    ELSE [job EXCEPT !.pc = "done", !.pred = Some(Concatenate(res))]

\* predict(data, features_names, batch_size, n_jobs) up to its return or, with
\* n_jobs > 1, up to the start of the Parallel block; a batch_size of None leaves the
\* size bs of the batches to read_batch
PredictCall(data, batch_size, n_jobs, bs) ==
    /\ pjob.pc = "idle"
    /\ batch_size # None => bs = batch_size[1]
    /\ LET job == [pjob EXCEPT !.data = data, !.n_jobs = n_jobs]
           batches == ReadBatch(data, bs)
       IN  IF batch_size = None /\ n_jobs = 1
           THEN /\ pjob' = [job EXCEPT !.pc = "done",
                                       !.pred = Some(SuperPredict(pjob.model, data))]
                /\ UNCHANGED <<pres, porder>>
           ELSE IF n_jobs = 1
           THEN /\ pjob' = Finish([job EXCEPT !.batches = batches],
                                  [i \in 1..Len(batches) |->
                                      SuperPredict(pjob.model, batches[i])])
                /\ UNCHANGED <<pres, porder>>
           ELSE /\ pjob' = [job EXCEPT !.pc = "parallel", !.batches = batches]
                /\ pres' = [i \in 1..Len(batches) |-> None]
                /\ porder' = <<>>
    /\ UNCHANGED <<amlvars, util>>

\* Parallel hands the next batch to a free worker: at most n_jobs run at a time
WorkerStart ==
    /\ pjob.pc = "parallel"
    /\ pjob.next <= Len(pjob.batches)
    /\ Cardinality(pjob.running) < pjob.n_jobs
    /\ pjob' = [pjob EXCEPT !.running = @ \cup {pjob.next}, !.next = @ + 1]
    /\ UNCHANGED <<pres, porder, amlvars, util>>

\* the worker of batch i returns from self.predict(df, features_names), which takes
\* the unbatched path
WorkerFinish(i) ==
    /\ pjob.pc = "parallel"
    /\ i \in pjob.running
    /\ pjob' = [pjob EXCEPT !.running = @ \ {i}]
    /\ pres' = [pres EXCEPT ![i] = Some(SuperPredict(pjob.model, pjob.batches[i]))]
    /\ porder' = Append(porder, i)
    /\ UNCHANGED <<amlvars, util>>

\* the Parallel block is left once every batch has its result; predict concatenates
Join ==
    /\ pjob.pc = "parallel"
    /\ pjob.next > Len(pjob.batches)
    /\ pjob.running = {}
    /\ pjob' = Finish(pjob, ParallelResults)
    /\ UNCHANGED <<pres, porder, amlvars, util>>

-----------------------------------------------------------------------------
(* Specification SpecPredict: predict, batched and not *)

DataSets == UNION {[1..n -> RowVals] : n \in 0..MaxRows}

DefaultAutoML ==
    InitAutoML({BinaryTask}, {AllGpus}, {AutoVal}, {AutoVal}, {FALSE}, {FALSE}, {1}, {None},
               {DefaultSelection})

InitPredict ==
    /\ DefaultAutoML
    /\ \E m \in [RowVals -> {0, 1}] : IdlePredictWith(m)
    /\ IdleUtil

NextPredict ==
    \/ \E data \in DataSets, batch_size \in {None} \cup {Some(k) : k \in 1..MaxRows},
          n_jobs \in 1..MaxJobs, bs \in 1..MaxRows :
          PredictCall(data, batch_size, n_jobs, bs)
    \/ WorkerStart
    \/ \E i \in 1..MaxRows : WorkerFinish(i)
    \/ Join

SpecPredict == InitPredict /\ [][NextPredict]_vars

-----------------------------------------------------------------------------
(* TabularUtilizedAutoML.__init__ *)

\* the configuration files of tabular_configs used when configs_list is None
BuiltinConfigs ==
    <<"conf_0_sel_type_0.yml", "conf_1_sel_type_1.yml", "conf_2_select_mode_1_no_typ.yml",
      "conf_3_sel_type_1_no_inter_lgbm.yml", "conf_4_sel_type_0_no_int.yml",
      "conf_5_sel_type_1_tuning_full.yml", "conf_6_sel_type_1_tuning_full_no_int_lgbm.yml">>

\* TimeUtilization.__init__(TabularAutoML, ..., configs_list, inner_blend, outer_blend,
\* drop_last, max_runs_per_config, ...)
TimeUtilization(configs_list, inner_blend, outer_blend, drop_last, max_runs_per_config) ==
    [automl_factory |-> "TabularAutoML", configs_list |-> configs_list,
     inner_blend |-> inner_blend, outer_blend |-> outer_blend,
     drop_last |-> drop_last, max_runs_per_config |-> max_runs_per_config]

\* TabularUtilizedAutoML(task, ..., configs_list, drop_last, max_runs_per_config): the
\* call of the base initialiser stands inside the branch taken when configs_list is None
UtilizedInit(configs_list, drop_last, max_runs_per_config) ==
    /\ ~util.constructed
    /\ util' = [constructed |-> TRUE,
                args |-> Some([configs_list |-> configs_list, drop_last |-> drop_last,
                               max_runs_per_config |-> max_runs_per_config]),
                runner |-> IF configs_list = None
                           THEN Some(TimeUtilization(BuiltinConfigs, "MeanBlender",
                                                     "WeightedBlender", drop_last,
                                                     max_runs_per_config))
                           ELSE None]
    /\ UNCHANGED <<amlvars, predvars>>

-----------------------------------------------------------------------------
(* Specification SpecUtilized: constructing TabularUtilizedAutoML *)

ConfigFiles == {"conf_a.yml", "conf_b.yml", "conf_c.yml"}

ConfigLists == UNION {[1..n -> ConfigFiles] : n \in 0..MaxConfigs}

InitUtilized ==
    /\ DefaultAutoML
    /\ IdlePredict
    /\ IdleUtil

NextUtilized ==
    \E configs_list \in {None} \cup {Some(l) : l \in ConfigLists}, drop_last \in BOOLEAN,
       max_runs_per_config \in 1..MaxRuns :
       UtilizedInit(configs_list, drop_last, max_runs_per_config)

SpecUtilized == InitUtilized /\ [][NextUtilized]_vars

-----------------------------------------------------------------------------
(* Claims *)

\* C1: the brackets of the claim, written from the top one down
C1_Bracket(n) ==
    CASE n >= 100000 -> 5
      [] n >= 30000 /\ n < 100000 -> 10
      [] n >= 10000 /\ n < 30000 -> 50
      [] n < 10000 -> 100

\* C1: every infer_auto_params (called alone or by create_automl) that finds
\* max_tuning_iter 'auto' resolves it, for a training set of n rows, to 100 if
\* n < 10000, 50 if 10000 <= n < 30000, 10 if 30000 <= n < 100000 and 5 otherwise.
C1_TuningIterBrackets ==
    [][(tuning_params.max_tuning_iter.auto
        /\ ret'.op \in {"infer_auto_params", "create_automl"})
       => tuning_params'.max_tuning_iter = Fixed(C1_Bracket(ret'.args.length))]_vars

\* C1: a call on exactly 30000 rows resolved 'auto' to 10, the next bracket
C1_Witness ==
    /\ ret.op = "infer_auto_params"
    /\ ret.args.length = 30000
    /\ tuning_params.max_tuning_iter = Fixed(10)

C2_FirstLevel == <<LGB, LGB_TUNED, LINEAR_L2, CB, CB_TUNED>>
C2_SecondLevel == <<LINEAR_L2, LGB>>

C2_Resolved(multilevel) ==
    IF task.name = "multiclass" /\ multilevel
    THEN <<C2_FirstLevel, C2_SecondLevel>>
    ELSE <<C2_FirstLevel>>

\* C2: a use_algos of 'auto' is resolved to the one level [lgb, lgb_tuned, linear_l2,
\* cb, cb_tuned], with the second level [linear_l2, lgb] appended iff the task is
\* multiclass and multilevel is available; create_automl takes multilevel to be
\* available iff valid_data is None and cv_iter is None.
C2_AutoUseAlgos ==
    [][/\ (general_params.use_algos.auto /\ ret'.op = "infer_auto_params")
          => general_params'.use_algos = Fixed(C2_Resolved(ret'.args.multilevel_avail))
       /\ (general_params.use_algos.auto /\ ret'.op = "create_automl")
          => general_params'.use_algos =
               Fixed(C2_Resolved(ret'.args.valid_data = None /\ ret'.args.cv_iter = None))]_vars

\* C2: create_automl on a multiclass task without valid_data and cv_iter built two levels
C2_Witness ==
    /\ ret.op = "create_automl"
    /\ task.name = "multiclass"
    /\ ret.args.valid_data = None /\ ret.args.cv_iter = None
    /\ general_params.use_algos = Fixed(<<C2_FirstLevel, C2_SecondLevel>>)
    /\ Len(automl.levels) = 2

\* self with skip connections set to b, all else equal
WithSkip(b) == [Self EXCEPT !.general_params.skip_conn = b]

C3_Score(b, n_level, k) == GetTimeScore(WithSkip(b), n_level, k, Some(TRUE))

\* C3 as stated: for every model type of the table and nested = True the score
\* strictly decreases from level 1 to 2 to 3 without skip connections, and
\* score(2, skip off) < score(2, skip on) < score(1).
C3_StrictlyDecreasing ==
    \A k \in DOMAIN time_scores :
        /\ \A n \in 1..(MaxLevel - 1) : C3_Score(FALSE, n + 1, k) < C3_Score(FALSE, n, k)
        /\ C3_Score(FALSE, 2, k) < C3_Score(TRUE, 2, k)
        /\ C3_Score(TRUE, 2, k) < C3_Score(TRUE, 1, k)

\* C3 amended: for every model type of the table and nested = True, every level above
\* the first has the same score, which is below the score of level 1, and
\* score(2, skip off) < score(2, skip on) < score(1).
C3_LowerAboveFirstLevel ==
    \A k \in DOMAIN time_scores :
        /\ \A n \in 2..MaxLevel, b \in BOOLEAN : C3_Score(b, n, k) = C3_Score(b, 2, k)
        /\ C3_Score(FALSE, 2, k) < C3_Score(FALSE, 1, k)
        /\ C3_Score(FALSE, 2, k) < C3_Score(TRUE, 2, k)
        /\ C3_Score(TRUE, 2, k) < C3_Score(TRUE, 1, k)
        /\ C3_Score(TRUE, 1, k) = C3_Score(FALSE, 1, k)

\* C3: a nested call for level 3 without skip connections, with several folds,
\* returned the score of level 2
C3_Witness ==
    /\ ret.op = "get_time_score"
    /\ ret.err = ""
    /\ ret.args.n_level = 3
    /\ ret.args.nested = Some(TRUE)
    /\ ~general_params.skip_conn
    /\ NestedMult(nested_cv_params) > 1
    /\ ret.val = Some(C3_Score(FALSE, 2, ret.args.model_type))

\* the time score a unit's timer would get with a nesting multiplier of 1
C4_UnnestedScore(p, n, u) ==
    LET key == IF p.kind = "linear" THEN LINEAR_L2
               ELSE IF u.tuner = None THEN <<u.model.algo>> ELSE <<u.model.algo, "tuned">>
    IN  time_scores[key] * LevelMult(Self, n) * GpuMult(Self, key)

\* C4: with nested cross-validation globally disabled, the nested-cv parameters
\* every level pipeline of create_automl got describe a fold count of 1 (n_folds if it
\* is set, else cv, as get_time_score reads them), whatever n_folds and cv were
\* configured, and every timer's score has a nesting multiplier of 1.
C4_DisabledMeansOneFold ==
    (automl.initialized /\ ~general_params.nested_cv) =>
        \A n \in 1..Len(automl.levels) : \A p \in Range(automl.levels[n]) :
            /\ NestedMult(p.nested_cv_params) = 1
            /\ \A u \in Range(p.ml_algos) :
                  u.model.timer.score = C4_UnnestedScore(p, n, u)

\* a key is requested whose base algorithm is neither lgb nor cb
C5_HasForeignKey(keys) == \E i \in 1..Len(keys) : Head(keys[i]) \notin {"lgb", "cb"}

\* C5: get_gbms fails with ValueError, and with no other kind of error, whenever a
\* requested key's base algorithm is neither 'lgb' nor 'cb'.
C5_ValueErrorOnForeignKey ==
    (ret.op = "get_gbms" /\ C5_HasForeignKey(ret.args.keys)) => ret.err = "ValueError"

C6_KnownKeys == {LGB, LGB_TUNED, CB, CB_TUNED, LINEAR_L2}

\* C6: create_automl fails with ValueError, leaving the pipeline uninitialised,
\* whenever a level of use_algos requests a key that is none of lgb, lgb_tuned, cb,
\* cb_tuned, linear_l2.
C6_FailsFastOnUnknownKey ==
    (/\ ret.op = "create_automl"
     /\ \E n \in 1..Len(general_params.use_algos.val) :
           Range(general_params.use_algos.val[n]) \ C6_KnownKeys # {})
    => (ret.err = "ValueError" /\ ~automl.initialized)

\* the kind of each pipeline of a level and the (algorithm, tuned) of each of its units
C7_Shape(lvl) ==
    [i \in 1..Len(lvl) |->
        [kind |-> lvl[i].kind,
         units |-> [j \in 1..Len(lvl[i].ml_algos) |->
                      <<lvl[i].ml_algos[j].model.algo, lvl[i].ml_algos[j].tuner # None>>]]]

\* the boosting units the claim expects for the names of a level
C7_Boosting(names) ==
    LET want(key, base) == key \in Range(names) /\ base \in task.losses
    IN  (IF want(LGB, "lgb") THEN << <<"lgb", FALSE>> >> ELSE <<>>)
        \o (IF want(LGB_TUNED, "lgb") THEN << <<"lgb", TRUE>> >> ELSE <<>>)
        \o (IF want(CB, "cb") THEN << <<"cb", FALSE>> >> ELSE <<>>)
        \o (IF want(CB_TUNED, "cb") THEN << <<"cb", TRUE>> >> ELSE <<>>)

C7_Expected(names) ==
    (IF LINEAR_L2 \in Range(names)
     THEN << [kind |-> "linear", units |-> << <<"linear_l2", FALSE>> >>] >> ELSE <<>>)
    \o (IF C7_Boosting(names) # <<>>
        THEN << [kind |-> "gbm", units |-> C7_Boosting(names)] >> ELSE <<>>)

\* C7: create_automl never fails and hands on one level per entry of the resolved
\* use_algos, in order: the linear pipeline iff 'linear_l2' is in the entry, then one
\* boosting pipeline iff a boosting key of the entry has an admissible base algorithm,
\* holding exactly the admissible requested keys; a level without pipeline stays,
\* empty.
C7_LevelsFollowUseAlgos ==
    /\ ret.op = "create_automl" => (ret.err = "" /\ automl.initialized)
    /\ automl.initialized =>
          /\ Len(automl.levels) = Len(general_params.use_algos.val)
          /\ \A n \in 1..Len(automl.levels) :
                C7_Shape(automl.levels[n]) = C7_Expected(general_params.use_algos.val[n])

\* C7: the only key of the second level is cb_tuned, which the task does not admit:
\* the level was passed on empty, after a first level with both pipelines
C7_Witness ==
    /\ automl.initialized
    /\ "cb" \notin task.losses
    /\ Len(automl.levels) = 2
    /\ general_params.use_algos.val[2] = <<CB_TUNED>>
    /\ automl.levels[2] = <<>>
    /\ Len(automl.levels[1]) = 2

\* the stages of a selector get_selector returned
C10_Stages(v) == IF v = None THEN <<>> ELSE v[1].stages

\* a stage without its objects
C10_StageShape(st) ==
    IF st.kind = "ImportanceCutoffSelector"
    THEN <<st.kind, st.importance, st.cutoff, st.fit_on_holdout>>
    ELSE <<st.kind, st.importance, st.feature_group_size, st.max_features_cnt_in_result>>

C10_Shape(v) == [i \in 1..Len(C10_Stages(v)) |-> C10_StageShape(C10_Stages(v)[i])]

C10_ModelIds(v) == {C10_Stages(v)[i].model.id : i \in 1..Len(C10_Stages(v))}
C10_TimerIds(v) == {C10_Stages(v)[i].model.timer.id : i \in 1..Len(C10_Stages(v))}

\* the stage kinds the claim names for the modes 0, 1 and 2
C10_ModeStages(v) ==
    LET kinds == [i \in 1..Len(C10_Stages(v)) |-> C10_Stages(v)[i].kind]
    IN  /\ selection_params.mode = 0 => v = None
        /\ selection_params.mode = 1 => kinds = <<"ImportanceCutoffSelector">>
        /\ selection_params.mode = 2 =>
              /\ kinds = <<"ImportanceCutoffSelector", "NpIterativeFeatureSelector">>
              /\ C10_Stages(v)[2].importance = "permutation"

\* C10: a get_selector call that follows a get_selector call with the same level and
\* configuration returns the same stages (count, kinds, cutoff, feature_group_size,
\* max_features_cnt_in_result) as the first, the stages its mode asks for, with models
\* and task timers that are new objects, one timer per stage.
C10_SelectorRebuilt ==
    [][(/\ ret.op = "get_selector" /\ ret'.op = "get_selector"
        /\ ret'.args = ret.args
        /\ cfgvars' = cfgvars)
       => /\ C10_Shape(ret'.val) = C10_Shape(ret.val)
          /\ C10_ModeStages(ret.val) /\ C10_ModeStages(ret'.val)
          /\ (C10_ModelIds(ret'.val) \cup C10_TimerIds(ret'.val))
             \cap (C10_ModelIds(ret.val) \cup C10_TimerIds(ret.val)) = {}
          /\ C10_ModelIds(ret'.val) \cap C10_TimerIds(ret'.val) = {}
          /\ Cardinality(C10_TimerIds(ret'.val)) = Len(C10_Stages(ret'.val))
          /\ Cardinality(C10_ModelIds(ret'.val)) = Len(C10_Stages(ret'.val))]_vars

\* C10: the second of two get_selector calls in mode 2 returned two stages built from
\* the objects 4..7, the first call having taken 0..3
C10_Witness ==
    /\ ret.op = "get_selector"
    /\ selection_params.mode = 2
    /\ heap = 8
    /\ C10_TimerIds(ret.val) = {4, 6}
    /\ C10_ModelIds(ret.val) = {5, 7}

\* C8: a batched predict with n_jobs > 1 that has returned holds, row for row, the
\* predictions of the unbatched predict on the same data, whatever order its workers
\* finished in; and it holds predictions only once every batch has its result and no
\* worker runs.
C8_BatchedEqualsUnbatched ==
    /\ (pjob.pc = "done" /\ pjob.n_jobs > 1)
       => pjob.pred = Some(SuperPredict(pjob.model, pjob.data))
    /\ (pjob.n_jobs > 1 /\ pjob.pred # None)
       => (pjob.running = {} /\ \A i \in 1..Len(pres) : pres[i] # None)

\* C8: a batched predict returned after the worker of a later batch finished before
\* the worker of an earlier batch whose predictions differ
C8_Witness ==
    /\ pjob.pc = "done"
    /\ pjob.n_jobs > 1
    /\ \E i, j \in 1..Len(porder) :
          /\ i < j
          /\ porder[i] > porder[j]
          /\ pres[porder[i]] # pres[porder[j]]

\* C9: constructing TabularUtilizedAutoML initialises the multi-config runner with the
\* given configs_list (the seven built-in configs when it is None), a mean blender as
\* inner blend, a weighted blender as outer blend and the given drop_last and
\* max_runs_per_config.
C9_RunnerInitialised ==
    util.constructed =>
        LET a == util.args[1]
        IN  util.runner =
              Some([automl_factory |-> "TabularAutoML",
                    configs_list |-> IF a.configs_list = None THEN BuiltinConfigs
                                     ELSE a.configs_list[1],
                    inner_blend |-> "MeanBlender", outer_blend |-> "WeightedBlender",
                    drop_last |-> a.drop_last,
                    max_runs_per_config |-> a.max_runs_per_config])

\* the pipelines of the levels, each with its level (1-based)
C11_Pipes(levels) ==
    UNION {{<<n, levels[n][i]>> : i \in 1..Len(levels[n])} : n \in 1..Len(levels)}

\* the family name select_algos lists for a pipeline
C11_Family(p) == IF p.kind = "linear" THEN "linear_l2" ELSE "gbm"

\* the claim's condition for the pipeline p of level n
C11_Opted(sp, gp, n, p) ==
    C11_Family(p) \in sp.select_algos /\ (gp.skip_conn \/ n = 1)

\* the ids of the objects (timers, models) of a selector and of a pipeline's units
C11_SelectorIds(sel) ==
    UNION {{sel.stages[i].model.id, sel.stages[i].model.timer.id} : i \in 1..Len(sel.stages)}
C11_UnitIds(p) ==
    UNION {{p.ml_algos[i].model.id, p.ml_algos[i].model.timer.id} : i \in 1..Len(p.ml_algos)}

\* the objects one selector of the mode takes: a timer and a model per stage
C11_SelectorObjects(mode) == IF mode = 0 THEN 0 ELSE IF mode = 2 THEN 4 ELSE 2

\* what the claim says of the levels built by a create_automl call that started
\* with the object counter at h0 and ended with it at h1
C11_Holds(h0, h1, levels, sp, gp) ==
    LET pipes == C11_Pipes(levels)
        carried == {q[2].pre_selection : q \in pipes} \ {None}
        units == UNION {C11_UnitIds(q[2]) : q \in pipes}
        k == C11_SelectorObjects(sp.mode)
    IN  /\ \A q \in pipes :
              /\ ~C11_Opted(sp, gp, q[1], q[2]) => q[2].pre_selection = None
              /\ sp.mode > 0 => (q[2].pre_selection # None <=> C11_Opted(sp, gp, q[1], q[2]))
              /\ sp.mode = 0 => q[2].pre_selection = None
        \* one object, the first the call built, with timers of the level-1 cost
        /\ Cardinality(carried) <= 1
        /\ \A c \in carried :
              /\ C11_SelectorIds(c[1]) = h0..(h0 + k - 1)
              /\ \A i \in 1..Len(c[1].stages) :
                    c[1].stages[i].model.timer.score = time_scores[LGB] * 10 * 10
        \* no second selector was built: every other object is a unit's timer or model
        /\ units = (h0 + k)..(h1 - 1)

\* C11: in the levels a create_automl call hands on, a level's linear (boosting)
\* pipeline holds the shared selector iff 'linear_l2' ('gbm') is in select_algos and
\* (skip connections are on or the level is the first), else None; with selection
\* mode 0 the shared selector is itself None. Every pipeline holding a selector holds
\* the same object, the one selector the call built, first, with timers scored for
\* level 1.
C11_SelectorOnlyWhereOpted ==
    [][(ret'.op = "create_automl" /\ ret'.err = "" /\ automl'.initialized)
       => C11_Holds(heap, heap', automl'.levels, selection_params', general_params')]_vars

\* C11: without skip connections, both pipelines of the first level hold the one
\* two-stage selector and the linear pipeline of the second level, though linear_l2
\* is selected, holds none
C11_Witness ==
    /\ automl.initialized
    /\ ~general_params.skip_conn
    /\ selection_params.mode = 2
    /\ selection_params.select_algos = {"linear_l2", "gbm"}
    /\ Len(automl.levels) = 2
    /\ Len(automl.levels[1]) = 2
    /\ automl.levels[1][1].pre_selection # None
    /\ automl.levels[1][2].pre_selection = automl.levels[1][1].pre_selection
    /\ Len(automl.levels[2]) >= 1
    /\ automl.levels[2][1].kind = "linear"
    /\ automl.levels[2][1].pre_selection = None

\* the position of a boosting key in the canonical order lgb, lgb_tuned, cb, cb_tuned
C12_Rank(key) ==
    IF key = <<"lgb">> THEN 1
    ELSE IF key = <<"lgb", "tuned">> THEN 2
    ELSE IF key = <<"cb">> THEN 3
    ELSE IF key = <<"cb", "tuned">> THEN 4
    ELSE 0

\* a non-empty list of boosting keys in the canonical order
C12_Canonical(keys) ==
    /\ keys # <<>>
    /\ \A i \in 1..Len(keys) : C12_Rank(keys[i]) > 0
    /\ \A i \in 1..(Len(keys) - 1) : C12_Rank(keys[i]) < C12_Rank(keys[i + 1])

\* C12: get_gbms on a non-empty list of boosting keys in the canonical order returns
\* a pipeline with one unit per key, in the order of the keys: the unit's model is of
\* the key's base algorithm, it has a tuner iff the key is a tuned one, and its task
\* timer is an object no other unit has; the force-calc flags are True for the first
\* key and False for every other.
C12_OneUnitPerKey ==
    (ret.op = "get_gbms" /\ C12_Canonical(ret.args.keys)) =>
        /\ ret.err = ""
        /\ ret.val # None
        /\ LET keys == ret.args.keys
               pipe == ret.val[1]
               units == pipe.ml_algos
           IN  /\ Len(units) = Len(keys)
               /\ \A i \in 1..Len(keys) :
                     /\ units[i].model.algo = (IF C12_Rank(keys[i]) <= 2 THEN "lgb" ELSE "cb")
                     /\ units[i].tuner # None <=> C12_Rank(keys[i]) \in {2, 4}
                     /\ units[i].model.timer.key = units[i].model.algo
                     /\ \A j \in 1..Len(keys) :
                           i # j => /\ units[i].model.timer.id # units[j].model.timer.id
                                    /\ units[i].model.timer.id # units[j].model.id
                                    /\ units[i].model.id # units[j].model.id
                     /\ units[i].model.timer.id # units[i].model.id
               /\ pipe.force_calc = [i \in 1..Len(keys) |-> i = 1]

\* C12: get_gbms on all four boosting keys returned four units, the second and the
\* fourth with a tuner, and only the first flag True
C12_Witness ==
    /\ ret.op = "get_gbms"
    /\ ret.args.keys = <<LGB, LGB_TUNED, CB, CB_TUNED>>
    /\ ret.err = ""
    /\ Len(ret.val[1].ml_algos) = 4
    /\ ret.val[1].ml_algos[2].tuner # None
    /\ ret.val[1].ml_algos[4].tuner # None
    /\ ret.val[1].ml_algos[3].tuner = None
    /\ ret.val[1].force_calc = <<TRUE, FALSE, FALSE, FALSE>>

====
